---- MODULE Spec2Model ----
(***************************************************************************)
(* Model of the Natuna server core (src/src/server/index.ts): the command  *)
(* registry (registerCommand), plugin discovery (_getPlugins), the plugin  *)
(* initializer (_initServerPlugins) and the resource lifecycle handlers    *)
(* (onServerResourceStart / onServerResourceStop).                         *)
(*                                                                         *)
(* The runtime is single-threaded: one action is one run of code between   *)
(* two suspension points (await), including every synchronous call and     *)
(* every promise continuation that runs before the next host task.         *)
(***************************************************************************)
EXTENDS Integers, Sequences, FiniteSets, TLC

\* ------------------------------------------------------------------ bounds
MaxNames == 2        \* command names are 1..MaxNames
MaxAliases == 2      \* longest alias array passed to registerCommand
MaxPlugins == 2      \* plugin directory names are 1..MaxPlugins
MaxCallers == 2      \* _getPlugins calls that may be in flight together
MaxPlayers == 2      \* players that connect, their handlers may overlap

\* ------------------------------------------------------------------ values
\* The properties every JS object inherits from Object.prototype: a lookup of
\* one of these keys on {} gives a function (an object for __proto__).
ObjectPrototype ==
    {"constructor", "toString", "valueOf", "hasOwnProperty", "isPrototypeOf",
     "propertyIsEnumerable", "toLocaleString", "__proto__", "__defineGetter__",
     "__defineSetter__", "__lookupGetter__", "__lookupSetter__"}

\* Command names: "1".."MaxNames", and one name that is an inherited key.
CommandNames == {ToString(i) : i \in 1..MaxNames} \cup {"constructor"}
Handlers == {"h1", "h2"}
CommandConfigs == {"{}", "desc"}

PluginNames == 1..MaxPlugins
Callers == 1..MaxCallers       \* the requestClientSettings invocations
InitCaller == 0                \* the call made by _initServerPlugins
AllCallers == {InitCaller} \cup Callers
Files == {"f1", "f2"}
Types == {"server", "client", "nui"}

VARIABLES
    commands,     \* this.commands: registered name -> Command Entry
    net,          \* emitNet broadcasts sent by the latest run of code, in order
    call,         \* the latest registerCommand call: arguments, registry before, outcome
    configPlugins, \* this.config.plugins: plugin name -> surface -> configuration
    disk,         \* the plugins folder: its entries in readdir order
    globRejects,  \* glob() rejects (TRUE) or resolves with [] when its cwd is gone
    requireCache, \* Node's module cache for the manifests required so far
    plugins,      \* this.plugins: surface -> cached Descriptor list
    calls,        \* the _getPlugins calls: position, locals, result
    first,        \* surface -> the list returned by the first completed call
    start,        \* position of the onServerResourceStart handler
    events,       \* lifecycle events triggered and plugin steps taken, in order
    serverPlugins, \* this.serverPlugins: plugin name -> loaded server module
    signal,       \* the latest start or stop notification the host delivered
    coreDb,       \* this.config.core.db
    databaseDriver, \* config["#database"].driver
    handle,       \* the storage handle the latest call of this.db returned
    database,     \* what the latest call of Database returned
    bootstrap,    \* the CREATE DATABASE statement of the constructor
    isWhitelisted, \* this.config.core.isWhitelisted
    tables,       \* the rows of whitelist_lists, users and ban_lists
    conns         \* the playerConnecting handlers: position, player, calls made

cmdVars == <<commands, net, call>>
discVars == <<configPlugins, disk, globRejects, requireCache, plugins, calls, first>>
lifeVars == <<start, events, serverPlugins, signal>>
dbVars == <<coreDb, databaseDriver, handle, database, bootstrap>>

connVars == <<isWhitelisted, tables, conns>>
vars == <<cmdVars, discVars, lifeVars, dbVars, connVars>>

\* The process runs: it has not been ended by an unhandled rejection, of the
\* bootstrap statement (index.ts 120), of a playerConnecting handler (401),
\* of the onServerResourceStart handler (521) or its version check (364), or
\* of a _getPlugins call and the handler that awaits it (230, 501).
Running ==
    /\ bootstrap # "exited"
    /\ start # "exited"
    /\ \A c \in DOMAIN conns : conns[c].pc # "exited"
    /\ \A c \in DOMAIN calls : calls[c].pc # "exited"

\* ------------------------------------------------------ command registry
\* A JS object used as a map: the keys present are the domain of the function.
Put(obj, key, value) ==
    [k \in DOMAIN obj \cup {key} |-> IF k = key THEN value ELSE obj[k]]

EmptyObject == [k \in {} |-> 0]

\* this.commands[name] as a condition (189, 194): this.commands is {} (106),
\* the lookup is truthy for a registered name and for an inherited key.
Truthy(cmds, name) == name \in DOMAIN cmds \/ name \in ObjectPrototype

\* new CommandWrapper(this, name, handler, config, isClientCommand)
CommandWrapper(name, handler, config, isClientCommand) ==
    [name |-> name, handler |-> handler, config |-> config,
     isClientCommand |-> isClientCommand]

\* State threaded through one registerCommand call.
RegState(cmds, sent) == [commands |-> cmds, net |-> sent, threw |-> FALSE]

\* Faulty variant: the duplicate check is skipped, the entry is overwritten.
addCommandOverwrite(st, name, handler, config, isClientCommand) ==
    [st EXCEPT !.net = Append(st.net, [name |-> name, config |-> config]),
               !.commands = Put(st.commands, name,
                                CommandWrapper(name, handler, config, isClientCommand))]

\* Faulty variant: a client-originated duplicate throws like a server-originated one.
addCommandClientThrows(st, name, handler, config, isClientCommand) ==
    IF Truthy(st.commands, name)
    THEN [st EXCEPT !.threw = TRUE]
    ELSE [st EXCEPT !.net = Append(st.net, [name |-> name, config |-> config]),
                    !.commands = Put(st.commands, name,
                                     CommandWrapper(name, handler, config, isClientCommand))]

\* Faulty variant: the broadcast is sent before the duplicate check.
addCommandBroadcastsFirst(st, name, handler, config, isClientCommand) ==
    LET sent == Append(st.net, [name |-> name, config |-> config]) IN
    IF Truthy(st.commands, name) /\ ~isClientCommand
    THEN [st EXCEPT !.net = sent, !.threw = TRUE]
    ELSE IF Truthy(st.commands, name) /\ isClientCommand
         THEN [st EXCEPT !.net = sent]
         ELSE [st EXCEPT !.net = sent,
                         !.commands = Put(st.commands, name,
                                          CommandWrapper(name, handler, config, isClientCommand))]

\* addCommand (index.ts 187-196): throw on a server-originated duplicate;
\* otherwise broadcast, then return early on a client-originated duplicate,
\* otherwise store a new entry.
addCommand(st, name, handler, config, isClientCommand) ==
    IF Truthy(st.commands, name) /\ ~isClientCommand
    THEN [st EXCEPT !.threw = TRUE]
    ELSE LET sent == Append(st.net, [name |-> name, config |-> config]) IN
         IF Truthy(st.commands, name) /\ isClientCommand
         THEN [st EXCEPT !.net = sent]
         ELSE [st EXCEPT !.net = sent,
                         !.commands = Put(st.commands, name,
                                          CommandWrapper(name, handler, config, isClientCommand))]

\* for (const alias of name) addCommand(alias): a throw leaves the loop.
RECURSIVE addAliases(_, _, _, _, _, _)
addAliases(st, names, i, handler, config, isClientCommand) ==
    IF i > Len(names) \/ st.threw
    THEN st
    ELSE addAliases(addCommand(st, names[i], handler, config, isClientCommand),
                    names, i + 1, handler, config, isClientCommand)

\* Faulty variant: an alias array is registered all or nothing, a failing
\* alias undoes the aliases registered before it.
registerCommandAtomic(st, isArray, names, handler, config, isClientCommand) ==
    LET r == IF isArray
             THEN addAliases(st, names, 1, handler, config, isClientCommand)
             ELSE addCommand(st, names[1], handler, config, isClientCommand)
    IN IF r.threw THEN [st EXCEPT !.threw = TRUE] ELSE r

\* registerCommand (index.ts 186-206). The name argument is either one
\* string (isArray = FALSE, names = <<name>>) or an array of aliases.
registerCommand(st, isArray, names, handler, config, isClientCommand) ==
    IF isArray
    THEN addAliases(st, names, 1, handler, config, isClientCommand)
    ELSE addCommand(st, names[1], handler, config, isClientCommand)

\* The name arguments a caller may pass.
SeqsUpTo(S, n) == UNION {[1..k -> S] : k \in 0..n}
NameArgs ==
    {[isArray |-> FALSE, names |-> <<n>>] : n \in CommandNames}
    \cup {[isArray |-> TRUE, names |-> s] : s \in SeqsUpTo(CommandNames, MaxAliases)}

NoCall ==
    [isArray |-> FALSE, names |-> <<>>, handler |-> "none", config |-> "{}",
     isClientCommand |-> FALSE, before |-> EmptyObject, result |-> "none"]

\* A registerCommand call: a plugin calling the Facade, or the shared event
\* natuna:server:registerCommand (index.ts 112) delivering a client's call.
RegisterCommand ==
    /\ Running
    /\ call.result = "none"
    /\ \E arg \in NameArgs, handler \in Handlers, config \in CommandConfigs,
         isClientCommand \in BOOLEAN :
        LET r == registerCommand(RegState(commands, <<>>), arg.isArray, arg.names,
                                 handler, config, isClientCommand) IN
        /\ commands' = r.commands
        /\ net' = r.net
        /\ call' = [isArray |-> arg.isArray, names |-> arg.names, handler |-> handler,
                    config |-> config, isClientCommand |-> isClientCommand,
                    before |-> commands,
                    result |-> IF r.threw THEN "threw" ELSE "true"]
        /\ UNCHANGED <<discVars, lifeVars, dbVars, connVars>>

\* The call is over: the caller has its return value or its exception, and the
\* broadcasts have left for the clients. Calls never overlap (no await inside).
CallReturns ==
    /\ Running
    /\ call.result # "none"
    /\ call' = NoCall
    /\ net' = <<>>
    /\ UNCHANGED <<commands, discVars, lifeVars, dbVars, connVars>>


\* ------------------------------------------------------- plugin discovery
\* A manifest file as require() sees it: loads = FALSE when requiring it
\* throws (the file is missing); default = FALSE when the module evaluates but
\* has no default export, or one that throws; otherwise its active flag and
\* its module lists per surface (manifest.plugins).
Manifest(loads, active, lists) ==
    [loads |-> loads, default |-> loads, active |-> active, plugins |-> lists]
Unloadable == Manifest(FALSE, FALSE, EmptyObject)
NoDefault == [Manifest(TRUE, FALSE, EmptyObject) EXCEPT !.default = FALSE]

\* manifest.ts of a plugin directory
TwoSurfaces ==
    Manifest(TRUE, TRUE, [t \in {"server", "client"} |->
                             IF t = "server" THEN <<"f1", "f2">> ELSE <<"f1">>])
TsManifests ==
    { Unloadable,
      NoDefault,
      TwoSurfaces,
      Manifest(TRUE, FALSE, [t \in {"server", "client"} |-> <<"f1">>]),
      Manifest(TRUE, TRUE, [t \in {"server"} |-> <<"f2">>]) }

\* manifest.json of a plugin directory
JsonManifests ==
    { Unloadable,
      Manifest(TRUE, TRUE, [t \in {"server", "client"} |->
                               IF t = "server" THEN <<"f2">> ELSE <<"f2", "f1">>]) }

\* One entry of the plugins folder, a plugin's directory: its two manifest
\* files and whether it has the folders client and server, which hold the
\* module files of the two surfaces (343 requires server/<file>), and ui.
DirEntries ==
    [name : PluginNames, ts : TsManifests, json : JsonManifests,
     client : BOOLEAN, server : BOOLEAN, ui : BOOLEAN]

\* A manifest file lists at least one module for the surface.
Lists(m, type) == m.loads /\ type \in DOMAIN m.plugins /\ m.plugins[type] # <<>>

\* The plugin has the folder of a surface exactly when one of its manifest
\* files lists modules for that surface.
ModuleFolders(e) ==
    \A type \in {"client", "server"} : e[type] = (Lists(e.ts, type) \/ Lists(e.json, type))

\* The plugins folder: entries with distinct names, in readdir order, each
\* with the folders of the modules its manifests list.
Disks ==
    {d \in SeqsUpTo({e \in DirEntries : ModuleFolders(e)}, MaxPlugins) :
        \A i, j \in 1..Len(d) : i # j => d[i].name # d[j].name}

\* this.config.plugins (natuna.config.js): either only plugin 1 configured,
\* for the server surface alone, or every plugin for both surfaces.
EmptyConfig == <<>>
EveryPluginConfigured ==
    [p \in PluginNames |-> [t \in {"server", "client"} |-> <<p, t>>]]
PluginConfigs ==
    { [p \in {1} |-> [t \in {"server"} |-> <<p, t>>]], EveryPluginConfigured }

\* The names readdir and glob("plugins/*") return for the plugins folder.
readDir(dsk) == [i \in 1..Len(dsk) |-> dsk[i].name]

OnDisk(dsk, pluginName) == \E i \in 1..Len(dsk) : dsk[i].name = pluginName
DiskEntry(dsk, pluginName) ==
    dsk[CHOOSE i \in 1..Len(dsk) : dsk[i].name = pluginName]

\* What a plugin's folder holds, as glob("*") and readdir list it.
Children(e) ==
    (IF e.client THEN <<"client">> ELSE <<>>)
    \o (IF e.json.loads THEN <<"manifest.json">> ELSE <<>>)
    \o (IF e.ts.loads THEN <<"manifest.ts">> ELSE <<>>)
    \o (IF e.server THEN <<"server">> ELSE <<>>)
    \o (IF e.ui THEN <<"ui">> ELSE <<>>)

\* The children fs.lstatSync(...).isDirectory() (259) is true of.
Directories == {"client", "server", "ui"}

\* The listing of a plugin's folder that glob("*") (250) and readdir (308)
\* resolve with; nothing when the folder is gone (whether the operation then
\* resolves at all is in the rejected flag of the call, see Read).
globChildren(dsk, pluginName) ==
    IF OnDisk(dsk, pluginName) THEN Children(DiskEntry(dsk, pluginName)) ELSE <<>>

\* fs.lstatSync of a child of a plugin's folder (259) finds it.
ChildOnDisk(dsk, pluginName, child) ==
    /\ OnDisk(dsk, pluginName)
    /\ \E k \in 1..Len(globChildren(dsk, pluginName)) :
           globChildren(dsk, pluginName)[k] = child

\* require(path): a module evaluated once is served from the module cache;
\* otherwise the file is loaded from disk, and cached when it evaluates.
require(cache, dsk, pluginName, form) ==
    IF <<pluginName, form>> \in DOMAIN cache
    THEN [threw |-> FALSE, module |-> cache[<<pluginName, form>>], cache |-> cache]
    ELSE IF OnDisk(dsk, pluginName) /\ DiskEntry(dsk, pluginName)[form].loads
         THEN [threw |-> FALSE, module |-> DiskEntry(dsk, pluginName)[form],
               cache |-> Put(cache, <<pluginName, form>>, DiskEntry(dsk, pluginName)[form])]
         ELSE [threw |-> TRUE, module |-> Unloadable, cache |-> cache]

\* index.ts 287-291: require(manifest.ts).default() first, manifest.json
\* when the require or the call of default throws; the module of manifest.ts
\* stays in the cache when only the call failed.
loadManifest(cache, dsk, pluginName) ==
    LET ts == require(cache, dsk, pluginName, "ts") IN
    IF ~ts.threw /\ ts.module.default THEN ts
    ELSE require(ts.cache, dsk, pluginName, "json")

\* index.ts 297: the plugin's configuration for the surface, or {}.
pluginConfig(cfg, pluginName, type) ==
    IF pluginName \in DOMAIN cfg /\ type \in DOMAIN cfg[pluginName]
    THEN cfg[pluginName][type]
    ELSE EmptyConfig

\* index.ts 299-303: one Descriptor per listed file, in listed order.
descriptors(manifest, pluginName, type, cfg) ==
    IF type \in DOMAIN manifest.plugins
    THEN [k \in 1..Len(manifest.plugins[type]) |->
             [name |-> pluginName, file |-> manifest.plugins[type][k],
              config |-> pluginConfig(cfg, pluginName, type)]]
    ELSE <<>>

\* State threaded through the scan loop of getPlugins: the list built so far,
\* the module cache, whether an exception left the loop, and the index of the
\* plugin whose ui folder is being read (0 when the loop is not suspended).
ScanState(list, cache) == [list |-> list, cache |-> cache, threw |-> FALSE, at |-> 0]

\* Faulty variant: no try/catch around one plugin, an unloadable manifest aborts the scan.
scanPluginNoCatch(st, dsk, pluginName, i, type, cfg) ==
    LET m == loadManifest(st.cache, dsk, pluginName) IN
    IF m.threw THEN [st EXCEPT !.cache = m.cache, !.threw = TRUE]
    ELSE IF ~m.module.active THEN [st EXCEPT !.cache = m.cache]
    ELSE IF type \in {"client", "server"}
         THEN [st EXCEPT !.cache = m.cache,
                         !.list = st.list \o descriptors(m.module, pluginName, type, cfg)]
         ELSE [st EXCEPT !.cache = m.cache, !.at = i]

\* Faulty variant: the active flag of the manifest is not looked at.
scanPluginIgnoresActive(st, dsk, pluginName, i, type, cfg) ==
    LET m == loadManifest(st.cache, dsk, pluginName) IN
    IF m.threw THEN [st EXCEPT !.cache = m.cache]
    ELSE IF type \in {"client", "server"}
         THEN [st EXCEPT !.cache = m.cache,
                         !.list = st.list \o descriptors(m.module, pluginName, type, cfg)]
         ELSE [st EXCEPT !.cache = m.cache, !.at = i]

\* index.ts 284-319, one iteration of the loop over the folder, up to its
\* await: an unloadable manifest is caught (317) and the plugin skipped (a
\* manifest.ts that evaluated stays in the module cache all the same); an
\* inactive one is skipped; for CLIENT and SERVER the Descriptors are pushed;
\* for NUI the iteration suspends on readdir of the plugin's folder.
scanPlugin(st, dsk, pluginName, i, type, cfg) ==
    LET m == loadManifest(st.cache, dsk, pluginName) IN
    IF m.threw THEN [st EXCEPT !.cache = m.cache]
    ELSE IF ~m.module.active THEN [st EXCEPT !.cache = m.cache]
    ELSE IF type \in {"client", "server"}
         THEN [st EXCEPT !.cache = m.cache,
                         !.list = st.list \o descriptors(m.module, pluginName, type, cfg)]
         ELSE [st EXCEPT !.cache = m.cache, !.at = i]

\* index.ts 283: for (const pluginName of pluginLists), from index i, until
\* the end of the list, an exception, or a suspension.
RECURSIVE scanLoop(_, _, _, _, _, _)
scanLoop(st, dsk, pluginLists, i, type, cfg) ==
    IF i > Len(pluginLists) \/ st.threw \/ st.at # 0
    THEN st
    ELSE scanLoop(scanPlugin(st, dsk, pluginLists[i], i, type, cfg),
                  dsk, pluginLists, i + 1, type, cfg)

\* index.ts 308-312: readdir of the plugin's folder has resolved with
\* resourceTypes (or rejected, when the folder was gone, which the catch at
\* 317 swallows).
uiFound(st, rejected, resourceTypes, pluginName) ==
    IF ~rejected /\ \E k \in 1..Len(resourceTypes) : resourceTypes[k] = "ui"
    THEN [st EXCEPT !.list = Append(st.list, [name |-> pluginName]), !.at = 0]
    ELSE [st EXCEPT !.at = 0]

\* The synchronous part of the loops of lines 245-266, from the plugin at i
\* (globPlugins) or from the child at j of the plugin at i (globModuleTypes),
\* up to the next await: fs.lstatSync throws when the entry is gone; a plugin
\* directory suspends on glob("*"), a directory among its children on
\* glob("**/*.ts"); "scan" when the loops are over.
GlobAt(pc, i, j) == [pc |-> pc, gi |-> i, gj |-> j]
RECURSIVE globPlugins(_, _, _)
RECURSIVE globModuleTypes(_, _, _, _, _)
globPlugins(dsk, pluginList, i) ==
    IF i > Len(pluginList) THEN GlobAt("scan", 0, 0)
    ELSE IF ~OnDisk(dsk, pluginList[i]) THEN GlobAt("failed", 0, 0)
    ELSE GlobAt("globdir", i, 0)
globModuleTypes(dsk, pluginList, i, moduleTypeList, j) ==
    IF j > Len(moduleTypeList) THEN globPlugins(dsk, pluginList, i + 1)
    ELSE IF ~ChildOnDisk(dsk, pluginList[i], moduleTypeList[j]) THEN GlobAt("failed", 0, 0)
    ELSE IF moduleTypeList[j] \in Directories THEN GlobAt("globmod", i, j)
    ELSE globModuleTypes(dsk, pluginList, i, moduleTypeList, j + 1)

\* A _getPlugins call and its caller. pc: "idle" no call; "glob" awaiting
\* glob("plugins/*") (241); "globdir" awaiting glob("*") in the plugin at gi
\* (250); "globmod" awaiting glob("**/*.ts") in the child at gj (260);
\* "readdir" awaiting readdir of the plugins folder (279); "uidir" awaiting
\* readdir of one plugin's folder (308); "returned" the promise is resolved
\* and the caller's continuation is the next thing to run; "failed" the
\* promise is rejected, and with it that of the handler that awaits it, which
\* nothing handles: the process goes on; "exited" the same, and the runtime
\* ended the process.
\* read: the file system has answered the pending operation (its result is
\* in pluginList, moduleTypeList, pluginLists or resourceTypes/rejected); the
\* continuation has not run yet.
\* late: some call for the same surface had already returned when this one
\* was made. held: the client list a requestClientSettings invocation holds
\* while it asks for the nui list.
IdleCall ==
    [pc |-> "idle", type |-> "server", read |-> FALSE,
     pluginList |-> <<>>, gi |-> 0, moduleTypeList |-> <<>>, gj |-> 0,
     pluginLists |-> <<>>, resourceTypes |-> <<>>, rejected |-> FALSE,
     list |-> <<>>, at |-> 0,
     late |-> FALSE, result |-> <<>>, held |-> <<>>]

\* No resolved promise is waiting for its continuation: the event loop is free
\* to run the next task (promise continuations run before any other task).
Quiet == \A c \in AllCallers : calls[c].pc # "returned"

\* The file system answers the operation a call is suspended on, from the
\* folder as it is at that moment: once per operation, at some time before
\* the continuation runs.
Read(cl, dsk) ==
    IF cl.read THEN cl
    ELSE CASE cl.pc = "glob" -> [cl EXCEPT !.read = TRUE, !.pluginList = readDir(dsk)]
           [] cl.pc = "globdir" ->
                [cl EXCEPT !.read = TRUE,
                           !.rejected = ~OnDisk(dsk, cl.pluginList[cl.gi]),
                           !.moduleTypeList = globChildren(dsk, cl.pluginList[cl.gi])]
           [] cl.pc = "globmod" ->
                [cl EXCEPT !.read = TRUE,
                           !.rejected = ~ChildOnDisk(dsk, cl.pluginList[cl.gi],
                                                     cl.moduleTypeList[cl.gj])]
           [] cl.pc = "readdir" -> [cl EXCEPT !.read = TRUE, !.pluginLists = readDir(dsk)]
           [] cl.pc = "uidir" ->
                [cl EXCEPT !.read = TRUE,
                           !.rejected = ~OnDisk(dsk, cl.pluginLists[cl.at]),
                           !.resourceTypes = globChildren(dsk, cl.pluginLists[cl.at])]
           [] OTHER -> cl

\* The record of a call of _getPlugins(type) that has just suspended on the
\* first glob (241).
NewCall(type, held) ==
    [IdleCall EXCEPT !.pc = "glob", !.type = type, !.late = type \in DOMAIN first,
                     !.held = held]

\* index.ts 230: _getPlugins(type) is called and suspends on the first glob.
GetPlugins(c, type) ==
    /\ Running
    /\ Quiet
    /\ calls[c].pc = "idle"
    /\ calls' = [calls EXCEPT ![c] = NewCall(type, <<>>)]
    /\ UNCHANGED <<configPlugins, disk, globRejects, requireCache, plugins, first>>

\* The call of caller c returns list.
Returned(cs, c, list) ==
    [cs EXCEPT ![c].pc = "returned", ![c].result = list, ![c].at = 0, ![c].read = FALSE,
               ![c].rejected = FALSE]

FirstReturned(f, type, list) == IF type \in DOMAIN f THEN f ELSE Put(f, type, list)

\* The scan of caller c has run to st: it is suspended at a plugin's ui
\* folder, or it failed, or it is complete and line 325 stores the list in
\* this.plugins[type] and returns it.
ScanOutcome(c, cl, st) ==
    LET type == cl.type IN
    /\ requireCache' = st.cache
    /\ IF st.threw
       THEN /\ \E outcome \in {"failed", "exited"} :
                 calls' = [calls EXCEPT ![c] = [cl EXCEPT !.pc = outcome, !.read = FALSE]]
            /\ UNCHANGED <<plugins, first>>
       ELSE IF st.at # 0
       THEN /\ calls' = [calls EXCEPT ![c] = [cl EXCEPT !.pc = "uidir", !.read = FALSE,
                                                        !.list = st.list, !.at = st.at]]
            /\ UNCHANGED <<plugins, first>>
       ELSE /\ plugins' = Put(plugins, type, st.list)
            /\ calls' = Returned([calls EXCEPT ![c] = cl], c, st.list)
            /\ first' = FirstReturned(first, type, st.list)

\* The glob caller c awaited has settled and the loops of lines 245-266 have
\* run to g: the glob rejected, or lstatSync threw, which rejects the call;
\* or the loops are suspended on the next glob; or they are over; then
\* line 325 returns a cached list as it is, otherwise getPlugins(type) starts
\* and suspends on readdir.
GlobOutcome(c, cl, g) ==
    IF g.pc = "failed" \/ (cl.rejected /\ globRejects)
    THEN /\ \E outcome \in {"failed", "exited"} :
              calls' = [calls EXCEPT ![c] = [cl EXCEPT !.pc = outcome, !.read = FALSE]]
         /\ UNCHANGED first
    ELSE IF g.pc = "scan"
    THEN IF cl.type \in DOMAIN plugins
         THEN /\ calls' = Returned([calls EXCEPT ![c] = cl], c, plugins[cl.type])
              /\ first' = FirstReturned(first, cl.type, plugins[cl.type])
         ELSE /\ calls' = [calls EXCEPT ![c] = [cl EXCEPT !.pc = "readdir", !.read = FALSE,
                                                          !.rejected = FALSE]]
              /\ UNCHANGED first
    ELSE /\ calls' = [calls EXCEPT ![c] = [cl EXCEPT !.pc = g.pc, !.read = FALSE,
                                                     !.rejected = FALSE,
                                                     !.gi = g.gi, !.gj = g.gj]]
         /\ UNCHANGED first

\* index.ts 241-248: glob("plugins/*") resolves and the loop over the
\* plugins starts.
GlobDone(c) ==
    /\ Running
    /\ Quiet
    /\ calls[c].pc = "glob"
    /\ LET cl == Read(calls[c], disk) IN
       GlobOutcome(c, cl, globPlugins(disk, cl.pluginList, 1))
    /\ UNCHANGED <<configPlugins, disk, globRejects, requireCache, plugins>>

\* index.ts 250-259: glob("*") of a plugin's folder resolves and the loop
\* over its children starts.
ModuleTypesGlobbed(c) ==
    /\ Running
    /\ Quiet
    /\ calls[c].pc = "globdir"
    /\ LET cl == Read(calls[c], disk) IN
       GlobOutcome(c, cl, globModuleTypes(disk, cl.pluginList, cl.gi, cl.moduleTypeList, 1))
    /\ UNCHANGED <<configPlugins, disk, globRejects, requireCache, plugins>>

\* index.ts 260-266: glob("**/*.ts") of a child resolves, its result is
\* logged, and the loops go on.
ModulesGlobbed(c) ==
    /\ Running
    /\ Quiet
    /\ calls[c].pc = "globmod"
    /\ LET cl == Read(calls[c], disk) IN
       GlobOutcome(c, cl, globModuleTypes(disk, cl.pluginList, cl.gi, cl.moduleTypeList,
                                          cl.gj + 1))
    /\ UNCHANGED <<configPlugins, disk, globRejects, requireCache, plugins>>

\* index.ts 279-325: readdir of the plugins folder resolves and the loop runs.
ReaddirDone(c) ==
    /\ Running
    /\ Quiet
    /\ calls[c].pc = "readdir"
    /\ LET cl == Read(calls[c], disk) IN
       ScanOutcome(c, cl, scanLoop(ScanState(<<>>, requireCache), disk, cl.pluginLists, 1,
                                   cl.type, configPlugins))
    /\ UNCHANGED <<configPlugins, disk, globRejects>>

\* index.ts 308-325: readdir of a plugin's folder resolves and the loop goes on.
UiDirDone(c) ==
    /\ Running
    /\ Quiet
    /\ calls[c].pc = "uidir"
    /\ LET cl == Read(calls[c], disk) IN
       ScanOutcome(c, cl, scanLoop(uiFound([ScanState(cl.list, requireCache)
                                               EXCEPT !.at = cl.at],
                                           cl.rejected, cl.resourceTypes,
                                           cl.pluginLists[cl.at]),
                                   disk, cl.pluginLists, cl.at + 1,
                                   cl.type, configPlugins))
    /\ UNCHANGED <<configPlugins, disk, globRejects>>

\* index.ts 501-502: a client asks for its settings; the handler calls
\* _getPlugins("client").
RequestClientSettings(c) == GetPlugins(c, "client")

\* index.ts 502-515: the handler goes on after an await: with the client list
\* it calls _getPlugins("nui"); with the nui list it returns the settings to
\* the client and ends.
RequestContinues(c) ==
    /\ Running
    /\ calls[c].pc = "returned"
    /\ calls' = [calls EXCEPT ![c] = IF calls[c].type = "client"
                                     THEN NewCall("nui", calls[c].result)
                                     ELSE IdleCall]
    /\ UNCHANGED <<configPlugins, disk, globRejects, requireCache, plugins, first>>

InitDiscovery ==
    /\ requireCache = EmptyObject
    /\ plugins = EmptyObject
    /\ calls = [c \in AllCallers |-> IdleCall]
    /\ first = EmptyObject


\* ---------------------------------------------- initializer and lifecycle
ResourceNames == {"natuna", "other"}
GetCurrentResourceName == "natuna"

\* A notification of the host: onServerResourceStart or onServerResourceStop
\* with the name of the resource that starts or stops.
Notification(kind, resourceName) == [kind |-> kind, resourceName |-> resourceName]
NoNotification == Notification("none", "")

\* What the server module of a Descriptor does when the initializer reaches
\* it: require() of the file throws; or its _handler throws; or its _handler
\* registers the command of the file as a server command and returns.
ModuleBehaviours == {"loadFails", "handlerThrows", "registers"}

\* require of a module of the plugin's server folder (343) can find the file.
ServerFolder(dsk, pluginName) ==
    OnDisk(dsk, pluginName) /\ DiskEntry(dsk, pluginName).server
CommandOfFile(file) == IF file = "f1" THEN ToString(1) ELSE ToString(MaxNames)

\* An entry of the events log: a lifecycle event sent with triggerServerEvent
\* ("starting", "initializing", "ready", "stopped"), the line the initializer
\* logs before it loads a Descriptor ("ensuring"), or the invocation of an
\* entry handler ("handler") with the configuration it was given, the commands
\* registered when it was invoked, the commands it registered, and its outcome.
LifecycleEvent(kind) ==
    [event |-> kind, name |-> 0, file |-> "", config |-> <<>>, seen |-> {},
     registered |-> {}, outcome |-> ""]
Ensuring(plugin) ==
    [event |-> "ensuring", name |-> plugin.name, file |-> plugin.file, config |-> <<>>,
     seen |-> {}, registered |-> {}, outcome |-> ""]
HandlerInvoked(plugin, cfg, seen, registered, outcome) ==
    [event |-> "handler", name |-> plugin.name, file |-> plugin.file, config |-> cfg,
     seen |-> seen, registered |-> registered, outcome |-> outcome]

\* State threaded through the loop of _initServerPlugins.
LoopState(cmds, loaded, log) ==
    [commands |-> cmds, net |-> <<>>, serverPlugins |-> loaded, events |-> log,
     threw |-> FALSE]

\* The _handler of a server module that registers its command (server
\* originated); a DuplicateCommand error leaves the handler and the loop.
handlerRegisters(st, plugin, cfg) ==
    LET r == registerCommand(RegState(st.commands, st.net), FALSE,
                             <<CommandOfFile(plugin.file)>>, "h1", "desc", FALSE)
    IN [st EXCEPT !.commands = r.commands,
                  !.net = r.net,
                  !.threw = r.threw,
                  !.events = Append(@, HandlerInvoked(plugin, cfg, DOMAIN st.commands,
                                        IF r.threw THEN {} ELSE {CommandOfFile(plugin.file)},
                                        IF r.threw THEN "threw" ELSE "returned"))]

\* index.ts 341-346, one iteration of the loop: log, require the module into
\* this.serverPlugins[plugin.name], call its _handler(this, plugin.config).
\* Nothing catches an exception of require or of the handler.
initPlugin(st, plugin, behaviour) ==
    LET logged == [st EXCEPT !.events = Append(@, Ensuring(plugin))] IN
    IF behaviour = "loadFails"
    THEN [logged EXCEPT !.threw = TRUE]
    ELSE LET loaded == [logged EXCEPT !.serverPlugins = Put(@, plugin.name, plugin.file)] IN
         IF behaviour = "handlerThrows"
         THEN [loaded EXCEPT !.threw = TRUE,
                             !.events = Append(@, HandlerInvoked(plugin, plugin.config,
                                                    DOMAIN loaded.commands, {}, "threw"))]
         ELSE handlerRegisters(loaded, plugin, plugin.config)

\* index.ts 340: for (const plugin of plugins), left by the first exception.
RECURSIVE initLoop(_, _, _, _)
initLoop(st, list, i, behaviours) ==
    IF i > Len(list) \/ st.threw
    THEN st
    ELSE initLoop(initPlugin(st, list[i], behaviours[i]), list, i + 1, behaviours)

\* Faulty variant: the Descriptors are taken last to first.
initServerPluginsReversed(st, list, behaviours) ==
    initLoop(st, [k \in 1..Len(list) |-> list[Len(list) + 1 - k]], 1, behaviours)

\* index.ts 339-348: _initServerPlugins once it has the Descriptor list.
initServerPlugins(st, list, behaviours) == initLoop(st, list, 1, behaviours)

\* onServerResourceStart (521-524): the host announces the start of a resource.
\* For this resource the handler triggers "starting" and awaits the banner.
\* The host announces the start of this resource once in a process.
ResourceStart ==
    /\ Running
    /\ Quiet
    /\ \E resourceName \in ResourceNames :
        /\ signal' = Notification("start", resourceName)
        /\ IF GetCurrentResourceName = resourceName
           THEN /\ start = "idle"
                /\ start' = "banner"
                /\ events' = Append(events, LifecycleEvent("starting"))
                /\ UNCHANGED <<serverPlugins, cmdVars, discVars, dbVars, connVars>>
           ELSE UNCHANGED <<start, events, serverPlugins, cmdVars, discVars, dbVars, connVars>>

\* index.ts 526-533: figlet calls back; the handler awaits the version check.
BannerDone ==
    /\ Running
    /\ Quiet
    /\ start = "banner"
    /\ start' = "version"
    /\ UNCHANGED <<events, serverPlugins, signal, cmdVars, discVars, dbVars, connVars>>

\* Faulty variant: _initServerPlugins is not awaited, "ready" follows "initializing".
VersionCheckedNoAwait ==
    /\ Running
    /\ Quiet
    /\ start = "version"
    /\ start' = "plugins"
    /\ events' = events \o <<LifecycleEvent("initializing"), LifecycleEvent("ready")>>
    /\ calls' = [calls EXCEPT ![InitCaller] = NewCall("server", <<>>)]
    /\ UNCHANGED <<serverPlugins, signal, cmdVars, dbVars, connVars,
                   configPlugins, disk, globRejects, requireCache, plugins, first>>

\* index.ts 533-539 and 335-337: the version check resolves; the handler
\* triggers "initializing" and awaits _initServerPlugins, which calls
\* _getPlugins("server").
VersionChecked ==
    /\ Running
    /\ Quiet
    /\ start = "version"
    /\ start' = "plugins"
    /\ events' = Append(events, LifecycleEvent("initializing"))
    /\ calls' = [calls EXCEPT ![InitCaller] = NewCall("server", <<>>)]
    /\ UNCHANGED <<serverPlugins, signal, cmdVars, dbVars, connVars,
                   configPlugins, disk, globRejects, requireCache, plugins, first>>

\* index.ts 358-381: the request of the version check fails, or its answer
\* is not the JSON of a package: the promise chain of fetch is rejected, which
\* nothing handles, and neither resolve nor reject of the awaited promise is
\* ever called: the handler stays suspended for good ("stalled"), or the
\* runtime ends the process ("exited").
VersionCheckRejects ==
    /\ Running
    /\ Quiet
    /\ start = "version"
    /\ \E outcome \in {"stalled", "exited"} : start' = outcome
    /\ UNCHANGED <<events, serverPlugins, signal, cmdVars, discVars, dbVars, connVars>>

\* index.ts 337-348 and 539-544: _getPlugins("server") has returned; the loop
\* runs over the Descriptors; when it ends without an exception the handler
\* triggers "ready", otherwise the handler's promise is rejected, which
\* nothing handles: the process goes on ("failed") or is ended by the
\* runtime ("exited").
InitContinues ==
    /\ Running
    /\ calls[InitCaller].pc = "returned"
    /\ \E behaviours \in [1..Len(calls[InitCaller].result) -> ModuleBehaviours] :
        /\ \A i \in DOMAIN behaviours :
              ~ServerFolder(disk, calls[InitCaller].result[i].name)
                  => behaviours[i] = "loadFails"
        /\ LET st == initServerPlugins(LoopState(commands, serverPlugins, events),
                                       calls[InitCaller].result, behaviours) IN
           /\ commands' = st.commands
           /\ net' = st.net
           /\ serverPlugins' = st.serverPlugins
           /\ events' = IF st.threw THEN st.events
                        ELSE Append(st.events, LifecycleEvent("ready"))
           /\ IF st.threw
              THEN \E outcome \in {"failed", "exited"} : start' = outcome
              ELSE start' = "ready"
    /\ calls' = [calls EXCEPT ![InitCaller] = IdleCall]
    /\ UNCHANGED <<call, signal, dbVars, connVars, configPlugins, disk, globRejects, requireCache, plugins, first>>

\* The host has announced the stop of this resource.
Stopped == \E i \in 1..Len(events) : events[i].event = "stopped"

\* Faulty variant: the handler does not compare the resource name.
ResourceStopAnyResource ==
    /\ Running
    /\ Quiet
    /\ \E resourceName \in ResourceNames :
        /\ signal' = Notification("stop", resourceName)
        /\ start # "idle"
        /\ ~Stopped
        /\ events' = Append(events, LifecycleEvent("stopped"))
        /\ UNCHANGED <<start, serverPlugins, cmdVars, discVars, dbVars, connVars>>

\* onServerResourceStop (552-557): for this resource the handler triggers
\* "stopped", and nothing else. The host announces the stop of a started
\* resource once.
ResourceStop ==
    /\ Running
    /\ Quiet
    /\ \E resourceName \in ResourceNames :
        /\ signal' = Notification("stop", resourceName)
        /\ IF GetCurrentResourceName = resourceName
           THEN /\ start # "idle"
                /\ ~Stopped
                /\ events' = Append(events, LifecycleEvent("stopped"))
                /\ UNCHANGED <<start, serverPlugins, cmdVars, discVars, dbVars, connVars>>
           ELSE UNCHANGED <<start, events, serverPlugins, cmdVars, discVars, dbVars, connVars>>

InitLifecycle ==
    /\ start = "idle"
    /\ events = <<>>
    /\ serverPlugins = EmptyObject
    /\ signal = NoNotification

\* ------------------------------------------------------------------ storage
\* A value of the configuration document: typeof of a JavaScript value is the
\* name of its type, "string" for a selector or a connection URI, "object"
\* for connection options (named here by their database).
JsString(s) == [type |-> "string", value |-> s]
JsObject(o) == [type |-> "object", value |-> o]
typeOf(v) == v.type

\* The selectors the type SelectedDatabaseDriver (31-38) names, and the
\* values of core.db: a selector, or connection options.
Selectors == {"mysql", "cassandra", "mongodb"}
CoreDbValues == {JsString(s) : s \in Selectors} \cup {JsObject("natuna")}

\* SelectedDatabaseDriver (31-38): the driver class a selector names; MySQL
\* for anything else.
SelectedDatabaseDriver(v) ==
    CASE v = JsString("mysql") -> "MySQL"
      [] v = JsString("cassandra") -> "Cassandra"
      [] v = JsString("mongodb") -> "MongoDB"
      [] OTHER -> "MySQL"

\* The collection names handles are bound to; the constructor uses "".
Tables == {"", "users", "bans"}

\* A storage handle: its driver class, what it connects with, its table.
StorageHandle(driver, connection, table) ==
    [driver |-> driver, connection |-> connection, table |-> table]

\* db (127-144): switch (typeof config.core.db), case "cassandra" a new
\* Cassandra(), case "mysql" and default a new MySQL on a connection made
\* from core.db, bound to the table.
db(config, table) ==
    CASE typeOf(config) = "cassandra" -> StorageHandle("Cassandra", JsString(""), "")
      [] typeOf(config) = "mysql" -> StorageHandle("MySQL", config, table)
      [] OTHER -> StorageHandle("MySQL", config, table)

\* The drivers the type DatabaseDriverUsed (573-582) names.
DatabaseDrivers == {"mysql", "sqlite", "mongodb", "postgresql"}
NoDatabase == "none"

\* Database (584-590): switch (config["#database"].driver), case "mysql" and
\* default MySQL(config, logger).
Database(driver) ==
    CASE driver = "mysql" -> "MySQL"
      [] OTHER -> "MySQL"

\* A caller asks the Facade for a handle on a table.
DbCall ==
    /\ Running
    /\ \E table \in Tables : handle' = db(coreDb, table)
    /\ UNCHANGED <<coreDb, databaseDriver, database, bootstrap, cmdVars, discVars, lifeVars, connVars>>

\* A caller asks the second factory for its driver.
DatabaseCall ==
    /\ Running
    /\ database' = Database(databaseDriver)
    /\ UNCHANGED <<coreDb, databaseDriver, handle, bootstrap, cmdVars, discVars, lifeVars, connVars>>

\* index.ts 120: the statement the constructor issued, and did not await,
\* succeeds or fails. Nothing in the Facade observes the outcome: a failure
\* is an unhandled rejection, which the runtime, by its policy, reports while
\* the process goes on ("failed"), or ends the process with ("exited").
BootstrapSettles ==
    /\ Running
    /\ bootstrap = "issued"
    /\ \E outcome \in {"ok", "failed", "exited"} : bootstrap' = outcome
    /\ UNCHANGED <<coreDb, databaseDriver, handle, database, cmdVars, discVars, lifeVars, connVars>>

\* constructor (101-121): dbQuery is taken from this.db("") (108), the event
\* handlers are registered (112-117), the bootstrap statement is issued (120).
InitStorage ==
    /\ coreDb \in CoreDbValues
    /\ databaseDriver \in DatabaseDrivers
    /\ handle = db(coreDb, "")
    /\ database = NoDatabase
    /\ bootstrap = "issued"

\* The configuration of a MySQL deployment.
InitMySQL ==
    /\ InitStorage
    /\ coreDb = JsString("mysql")
    /\ databaseDriver = "mysql"

\* -------------------------------------------------------- playerConnecting
\* The connections the host announces, one handler run each.
Connections == 1..MaxPlayers
PlayerNames == {"ana"}
Licenses == {"lic1", "lic2"}

\* getIdentifiers(player) (415): the identifiers the host knows of the
\* player. The license is "" when the player has none; the object has the
\* key ip only when the host reports an address.
NoLicense == ""
PlayerIds ==
    [license : Licenses \cup {NoLicense}, ip : {"10.0.0.1"}]
        \cup [license : Licenses \cup {NoLicense}]

\* The messages of the handler (411, 418, 435, 441) and the reason column of
\* the rows of ban_lists: a text, or nothing (NoReason: the column is empty
\* or absent, a falsy value that deferrals.done takes for no reason).
NoReason == ""
Hello(name) == <<"Hello", name, "Please wait until we verify your account.">>
InvalidLicense == <<"Your game license is invalid!">>
NotWhitelisted == <<"You are not whitelisted!">>
FindingAccount == <<"Finding your account in our database.">>
BanReasons == {"cheating", NoReason}

\* A call the handler made, with its arguments; done() has none.
Called(fn, args) == [call |-> fn, args |-> args]

\* Rows of the three tables. last_login is the time of the call.
Now == "now"
WhitelistRows == [license : Licenses]
BanRows == [license : Licenses, reason : BanReasons]
UserRows == [license : Licenses, last_ip : {"10.0.0.9"}, last_login : {"before"}]
Tableses ==
    [whitelist_lists : SeqsUpTo(WhitelistRows, 1),
     users : SeqsUpTo(UserRows, 1),
     ban_lists : SeqsUpTo(BanRows, 1)]

\* Storage contract (spec 4.1): findFirst returns the first row that matches,
\* or nothing (the empty sequence here); write adds a row; update changes the
\* rows that match.
MatchingRows(rows, license) ==
    {i \in 1..Len(rows) : rows[i].license = license}
findFirst(rows, license) ==
    LET found == MatchingRows(rows, license) IN
    IF found = {} THEN <<>>
    ELSE <<rows[CHOOSE i \in found : \A j \in found : i <= j]>>
write(rows, data) == Append(rows, data)
update(rows, data, license) ==
    [i \in 1..Len(rows) |->
        IF rows[i].license = license
        THEN [rows[i] EXCEPT !.last_ip = data.last_ip, !.last_login = data.last_login]
        ELSE rows[i]]

\* newCheckpointData (449-452): playerIds.ip.toString() throws a TypeError
\* when the identifiers have no ip.
ipToStringThrows(playerIds) == "ip" \notin DOMAIN playerIds
newCheckpointData(playerIds) == [last_ip |-> playerIds.ip, last_login |-> Now]

IdleConn == [pc |-> "idle", name |-> "", playerIds |-> [license |-> NoLicense, ip |-> ""],
             log |-> <<>>]

\* The handler of connection c makes the calls and goes to pc.
Proceed(c, pc, made) == [conns EXCEPT ![c].pc = pc, ![c].log = @ \o made]

\* index.ts 440-446: the handler tells the player it looks for the account
\* and suspends on findFirst of users.
FindUser(license) ==
    <<Called("deferrals.update", FindingAccount),
      Called("db.findFirst", <<"users", license>>)>>

\* index.ts 405-446: the host announces a connecting player. The handler
\* defers, greets, reads the identifiers; without a license it is done with a
\* reason; otherwise it suspends on the whitelist lookup or on the user lookup.
PlayerConnecting(c) ==
    /\ Running
    /\ conns[c].pc = "idle"
    /\ \E name \in PlayerNames, playerIds \in PlayerIds :
        LET begun == [conns EXCEPT ![c].name = name, ![c].playerIds = playerIds,
                                   ![c].log = <<Called("deferrals.defer", <<>>),
                                                Called("deferrals.update", Hello(name))>>]
            license == playerIds.license IN
        IF license = NoLicense
        THEN /\ conns' = [begun EXCEPT ![c].pc = "done",
                                       ![c].log = Append(@, Called("deferrals.done",
                                                                   InvalidLicense))]
             /\ UNCHANGED handle
        ELSE IF isWhitelisted
        THEN /\ conns' = [begun EXCEPT ![c].pc = "whitelist",
                                       ![c].log = Append(@, Called("db.findFirst",
                                                         <<"whitelist_lists", license>>))]
             /\ handle' = db(coreDb, "whitelist_lists")
        ELSE /\ conns' = [begun EXCEPT ![c].pc = "user", ![c].log = @ \o FindUser(license)]
             /\ handle' = db(coreDb, "users")
    /\ UNCHANGED <<isWhitelisted, tables, coreDb, databaseDriver, database, bootstrap,
                   cmdVars, discVars, lifeVars>>

\* index.ts 428-446: the whitelist lookup resolves.
WhitelistChecked(c) ==
    /\ Running
    /\ conns[c].pc = "whitelist"
    /\ LET license == conns[c].playerIds.license
           checkWhitelistStatus == findFirst(tables.whitelist_lists, license) IN
       IF checkWhitelistStatus = <<>>
       THEN /\ conns' = Proceed(c, "done", <<Called("deferrals.done", NotWhitelisted)>>)
            /\ UNCHANGED handle
       ELSE /\ conns' = Proceed(c, "user", FindUser(license))
            /\ handle' = db(coreDb, "users")
    /\ UNCHANGED <<isWhitelisted, tables, coreDb, databaseDriver, database, bootstrap,
                   cmdVars, discVars, lifeVars>>

\* index.ts 442-472: the user lookup resolves; the handler builds
\* newCheckpointData, and suspends on the write of a new account, or on the
\* ban lookup of an existing one. An exception of line 450 rejects the
\* handler's promise, which nothing handles: deferrals.done is never called,
\* and the process goes on ("failed") or is ended by the runtime ("exited").
UserFound(c) ==
    /\ Running
    /\ conns[c].pc = "user"
    /\ LET license == conns[c].playerIds.license
           user == findFirst(tables.users, license) IN
       IF ipToStringThrows(conns[c].playerIds)
       THEN /\ \E outcome \in {"failed", "exited"} : conns' = Proceed(c, outcome, <<>>)
            /\ UNCHANGED handle
       ELSE IF user = <<>>
       THEN /\ conns' = Proceed(c, "write", <<Called("db.write", <<"users", license>>)>>)
            /\ handle' = db(coreDb, "users")
       ELSE /\ conns' = Proceed(c, "ban",
                                <<Called("db.findFirst", <<"ban_lists", license>>)>>)
            /\ handle' = db(coreDb, "ban_lists")
    /\ UNCHANGED <<isWhitelisted, tables, coreDb, databaseDriver, database, bootstrap,
                   cmdVars, discVars, lifeVars>>

\* index.ts 459-466 and 491: the write of the new account resolves; done().
UserWritten(c) ==
    /\ Running
    /\ conns[c].pc = "write"
    /\ tables' = [tables EXCEPT !.users =
                     write(@, [license |-> conns[c].playerIds.license,
                               last_ip |-> newCheckpointData(conns[c].playerIds).last_ip,
                               last_login |-> newCheckpointData(conns[c].playerIds).last_login])]
    /\ conns' = Proceed(c, "done", <<Called("deferrals.done", <<>>)>>)
    /\ UNCHANGED <<isWhitelisted, cmdVars, discVars, lifeVars, dbVars>>

\* index.ts 472-489: the ban lookup resolves; a banned player is done with
\* the reason of the ban, otherwise the handler suspends on the update.
BanChecked(c) ==
    /\ Running
    /\ conns[c].pc = "ban"
    /\ LET license == conns[c].playerIds.license
           checkBanStatus == findFirst(tables.ban_lists, license) IN
       IF checkBanStatus # <<>>
       THEN /\ conns' = Proceed(c, "done",
                                <<Called("deferrals.done", <<checkBanStatus[1].reason>>)>>)
            /\ UNCHANGED handle
       ELSE /\ conns' = Proceed(c, "update", <<Called("db.update", <<"users", license>>)>>)
            /\ handle' = db(coreDb, "users")
    /\ UNCHANGED <<isWhitelisted, tables, coreDb, databaseDriver, database, bootstrap,
                   cmdVars, discVars, lifeVars>>

\* index.ts 482-491: the update of the account resolves; done().
UserUpdated(c) ==
    /\ Running
    /\ conns[c].pc = "update"
    /\ tables' = [tables EXCEPT !.users =
                     update(@, newCheckpointData(conns[c].playerIds),
                            conns[c].playerIds.license)]
    /\ conns' = Proceed(c, "done", <<Called("deferrals.done", <<>>)>>)
    /\ UNCHANGED <<isWhitelisted, cmdVars, discVars, lifeVars, dbVars>>

\* No player has connected.
InitConnections ==
    /\ conns = [c \in Connections |-> IdleConn]

\* No player has connected, the tables are empty and whitelisting is off.
InitNoPlayers ==
    /\ InitConnections
    /\ isWhitelisted = FALSE
    /\ tables = [whitelist_lists |-> <<>>, users |-> <<>>, ban_lists |-> <<>>]

\* ---------------------------------------------------------- specifications
InitRegistry ==
    /\ commands = EmptyObject
    /\ net = <<>>
    /\ call = NoCall

\* The command registry alone: registerCommand calls on a fixed, empty folder.
InitCmd ==
    /\ InitRegistry
    /\ globRejects = TRUE
    /\ InitNoPlayers
    /\ InitMySQL
    /\ InitDiscovery
    /\ InitLifecycle
    /\ configPlugins = EmptyObject
    /\ disk = <<>>

NextCmd == RegisterCommand \/ CallReturns

SpecCmd == InitCmd /\ [][NextCmd]_vars

\* Discovery as a function of the folder: one call of _getPlugins for any
\* surface, every folder and configuration, no change of the folder.
InitScan ==
    /\ InitRegistry
    /\ globRejects = TRUE
    /\ InitNoPlayers
    /\ InitMySQL
    /\ InitDiscovery
    /\ InitLifecycle
    /\ configPlugins \in PluginConfigs
    /\ disk \in Disks

NextScan ==
    \/ \E type \in Types : GetPlugins(1, type) /\ UNCHANGED <<cmdVars, lifeVars, dbVars, connVars>>
    \/ GlobDone(1) /\ UNCHANGED <<cmdVars, lifeVars, dbVars, connVars>>
    \/ ModuleTypesGlobbed(1) /\ UNCHANGED <<cmdVars, lifeVars, dbVars, connVars>>
    \/ ModulesGlobbed(1) /\ UNCHANGED <<cmdVars, lifeVars, dbVars, connVars>>
    \/ ReaddirDone(1) /\ UNCHANGED <<cmdVars, lifeVars, dbVars, connVars>>
    \/ UiDirDone(1) /\ UNCHANGED <<cmdVars, lifeVars, dbVars, connVars>>

SpecScan == InitScan /\ [][NextScan]_vars

\* Discovery under concurrency: overlapping calls, and a plugins folder that
\* changes while the process runs (plugins installed, removed or repaired),
\* with every plugin configured for both surfaces.
ChangingEntries ==
    {e \in DirEntries : /\ ModuleFolders(e)
                        /\ e.name = 1
                        /\ e.json = Unloadable
                        /\ e.ui
                        /\ e.ts \in {NoDefault, TwoSurfaces}}

\* The folder holds at most one plugin at a time here.
ChangingDisks == SeqsUpTo(ChangingEntries, 1)

\* The operator of the server changes the plugins folder.
ChangeDisk ==
    /\ Running
    /\ disk' \in ChangingDisks \ {disk}
    /\ \E answered \in SUBSET {c \in Callers : calls[c] # Read(calls[c], disk)} :
        calls' = [c \in AllCallers |->
                     IF c \in answered THEN Read(calls[c], disk) ELSE calls[c]]
    /\ UNCHANGED <<configPlugins, globRejects, requireCache, plugins, first>>

InitDisc ==
    /\ InitRegistry
    /\ globRejects \in BOOLEAN
    /\ InitNoPlayers
    /\ InitMySQL
    /\ InitDiscovery
    /\ InitLifecycle
    /\ configPlugins = EveryPluginConfigured
    /\ disk \in ChangingDisks

NextDisc ==
    \/ \E c \in Callers : RequestClientSettings(c) /\ UNCHANGED <<cmdVars, lifeVars, dbVars, connVars>>
    \/ \E c \in Callers : RequestContinues(c) /\ UNCHANGED <<cmdVars, lifeVars, dbVars, connVars>>
    \/ \E c \in Callers : GlobDone(c) /\ UNCHANGED <<cmdVars, lifeVars, dbVars, connVars>>
    \/ \E c \in Callers : ModuleTypesGlobbed(c) /\ UNCHANGED <<cmdVars, lifeVars, dbVars, connVars>>
    \/ \E c \in Callers : ModulesGlobbed(c) /\ UNCHANGED <<cmdVars, lifeVars, dbVars, connVars>>
    \/ \E c \in Callers : ReaddirDone(c) /\ UNCHANGED <<cmdVars, lifeVars, dbVars, connVars>>
    \/ \E c \in Callers : UiDirDone(c) /\ UNCHANGED <<cmdVars, lifeVars, dbVars, connVars>>
    \/ ChangeDisk /\ UNCHANGED <<cmdVars, lifeVars, dbVars, connVars>>

SpecDisc == InitDisc /\ [][NextDisc]_vars

\* The lifecycle: the host's start and stop notifications, the start sequence
\* with its awaits, discovery of the server surface and the initializer, over
\* every folder of plugins without manifest.json and ui, whose manifest.ts,
\* when there is one, has a default export.
LifeDisks ==
    {d \in Disks : \A i \in 1..Len(d) :
        d[i].json = Unloadable /\ ~d[i].ui /\ d[i].ts # NoDefault}

InitLife ==
    /\ InitRegistry
    /\ globRejects = TRUE
    /\ InitNoPlayers
    /\ InitMySQL
    /\ InitDiscovery
    /\ InitLifecycle
    /\ configPlugins \in PluginConfigs
    /\ disk \in LifeDisks

NextLife ==
    \/ ResourceStart
    \/ BannerDone
    \/ VersionChecked
    \/ VersionCheckRejects
    \/ GlobDone(InitCaller) /\ UNCHANGED <<cmdVars, lifeVars, dbVars, connVars>>
    \/ ModuleTypesGlobbed(InitCaller) /\ UNCHANGED <<cmdVars, lifeVars, dbVars, connVars>>
    \/ ModulesGlobbed(InitCaller) /\ UNCHANGED <<cmdVars, lifeVars, dbVars, connVars>>
    \/ ReaddirDone(InitCaller) /\ UNCHANGED <<cmdVars, lifeVars, dbVars, connVars>>
    \/ InitContinues
    \/ ResourceStop
    \/ BootstrapSettles

SpecLife == InitLife /\ [][NextLife]_vars

\* The storage factories: every configuration, calls of db and of Database,
\* the bootstrap statement settling.
InitDb ==
    /\ InitRegistry
    /\ globRejects = TRUE
    /\ InitNoPlayers
    /\ InitDiscovery
    /\ InitLifecycle
    /\ InitStorage
    /\ configPlugins = EmptyObject
    /\ disk = <<>>

NextDb == DbCall \/ DatabaseCall \/ BootstrapSettles

SpecDb == InitDb /\ [][NextDb]_vars

\* Connecting players: every configuration of whitelisting and of the three
\* tables, handlers of several connections interleaved at their awaits.
InitConn ==
    /\ InitRegistry
    /\ globRejects = TRUE
    /\ InitDiscovery
    /\ InitLifecycle
    /\ InitMySQL
    /\ InitConnections
    /\ isWhitelisted \in BOOLEAN
    /\ tables \in Tableses
    /\ configPlugins = EmptyObject
    /\ disk = <<>>

NextConn ==
    \/ \E c \in Connections : PlayerConnecting(c)
    \/ \E c \in Connections : WhitelistChecked(c)
    \/ \E c \in Connections : UserFound(c)
    \/ \E c \in Connections : UserWritten(c)
    \/ \E c \in Connections : BanChecked(c)
    \/ \E c \in Connections : UserUpdated(c)

SpecConn == InitConn /\ [][NextConn]_vars

\* ------------------------------------------------- claims on the registry
Range(s) == {s[i] : i \in 1..Len(s)}
Distinct(s) == \A i, j \in 1..Len(s) : i # j => s[i] # s[j]

\* C1: a server-originated registerCommand (isClientCommand = FALSE) naming a
\* command that a server-originated registration created earlier throws, and
\* the existing entry of that name (handler, config, origin) is unchanged.
C1_ServerDuplicateThrows ==
    (call.result # "none" /\ ~call.isClientCommand) =>
        \A n \in Range(call.names) :
            (n \in DOMAIN call.before /\ ~call.before[n].isClientCommand) =>
                /\ call.result = "threw"
                /\ n \in DOMAIN commands
                /\ commands[n] = call.before[n]

\* C1 witness: a server-originated duplicate with another handler and config
\* than the existing server-originated entry has just thrown.
C1_Witness ==
    /\ call.result = "threw"
    /\ ~call.isClientCommand
    /\ \E n \in Range(call.names) :
        /\ n \in DOMAIN call.before
        /\ ~call.before[n].isClientCommand
        /\ call.before[n].handler # call.handler
        /\ call.before[n].config # call.config

\* C2: a client-originated registerCommand (isClientCommand = TRUE) never
\* throws; every name of the call that already existed, whatever its origin,
\* keeps its entry, and when every name existed the registry is unchanged.
C2_ClientDuplicateNoOp ==
    (call.result # "none" /\ call.isClientCommand) =>
        /\ call.result = "true"
        /\ \A n \in Range(call.names) \cap DOMAIN call.before :
            n \in DOMAIN commands /\ commands[n] = call.before[n]
        /\ (Range(call.names) \subseteq DOMAIN call.before) => commands = call.before

\* C2 witness: a client-originated call for one existing server-originated
\* name, with another handler and config, has returned.
C2_Witness ==
    /\ call.result = "true"
    /\ call.isClientCommand
    /\ ~call.isArray
    /\ call.names[1] \in DOMAIN call.before
    /\ ~call.before[call.names[1]].isClientCommand
    /\ call.before[call.names[1]].handler # call.handler
    /\ call.before[call.names[1]].config # call.config

\* C10: registering an array of N distinct names, none registered yet, returns
\* true and creates exactly N entries, one per alias, each holding the call's
\* handler and config; the other entries are as before.
C10_AliasesRegistered ==
    (/\ call.result # "none"
     /\ call.isArray
     /\ Distinct(call.names)
     /\ Range(call.names) \cap DOMAIN call.before = {}) =>
        /\ call.result = "true"
        /\ DOMAIN commands = DOMAIN call.before \cup Range(call.names)
        /\ Cardinality(DOMAIN commands) = Cardinality(DOMAIN call.before) + Len(call.names)
        /\ \A n \in Range(call.names) :
            /\ commands[n].name = n
            /\ commands[n].handler = call.handler
            /\ commands[n].config = call.config
            /\ commands[n].isClientCommand = call.isClientCommand
        /\ \A n \in DOMAIN call.before : commands[n] = call.before[n]

\* The number of broadcasts of the latest call that carry the name, and the
\* names the latest call added to the registry.
Broadcasts(n) == Cardinality({i \in 1..Len(net) : net[i].name = n})
Created(n) == n \in DOMAIN commands /\ n \notin DOMAIN call.before
Occurrences(n) == Cardinality({i \in 1..Len(call.names) : call.names[i] = n})

\* The first alias of the latest call at which a server-originated
\* registration collides: the name was registered before the call, or it is
\* repeated in the call. 0 when there is none.
FirstCollision ==
    LET bad == {k \in 1..Len(call.names) :
                   \/ call.names[k] \in DOMAIN call.before
                   \/ call.names[k] \in ObjectPrototype
                   \/ \E i \in 1..(k - 1) : call.names[i] = call.names[k]}
    IN IF bad = {} THEN 0 ELSE CHOOSE k \in bad : \A j \in bad : k <= j

\* C11: a registration that creates an entry broadcasts (name, config) of
\* that command once, and a registration that fails with DuplicateCommand
\* broadcasts nothing for the colliding name: every broadcast carries the
\* call's config, a name the call created is broadcast (once, unless a
\* client call repeats the name), and in a server-originated call a name is
\* broadcast once when the call created it and not at all otherwise.
C11_BroadcastPerCreation ==
    call.result # "none" =>
        /\ \A i \in 1..Len(net) : net[i].config = call.config
        /\ \A n \in CommandNames :
            /\ Created(n) => Broadcasts(n) >= 1
            /\ (Created(n) /\ Occurrences(n) = 1) => Broadcasts(n) = 1
            /\ ~call.isClientCommand => Broadcasts(n) = (IF Created(n) THEN 1 ELSE 0)

\* C11 witness: a server-originated alias array created its first alias,
\* broadcast it, and failed on its second alias, which was registered before.
C11_Witness ==
    /\ call.result = "threw"
    /\ ~call.isClientCommand
    /\ Len(call.names) = 2
    /\ Created(call.names[1])
    /\ call.names[2] \in DOMAIN call.before
    /\ net = <<[name |-> call.names[1], config |-> call.config]>>

\* C15: a client-originated registration that is a no-op because the name
\* exists is silent: the call sends no broadcast for that name, so that the
\* broadcasts of a call are exactly its created entries.
C15_ClientNoOpSilent ==
    (call.result # "none" /\ call.isClientCommand) =>
        \A n \in Range(call.names) \cap DOMAIN call.before : Broadcasts(n) = 0

\* C16: entries are write-once: no step removes a registered name or
\* replaces its entry, whatever the call, its origin and its outcome.
C16_WriteOnce ==
    [][\A n \in DOMAIN commands : n \in DOMAIN commands' /\ commands'[n] = commands[n]]_vars

\* C16 witness: a client-originated alias array naming an existing entry with
\* another handler, and a new name, has returned; the existing entry is intact.
C16_Witness ==
    /\ call.result = "true"
    /\ call.isArray
    /\ call.isClientCommand
    /\ Len(call.names) = 2
    /\ call.names[1] \in DOMAIN call.before
    /\ call.before[call.names[1]].handler # call.handler
    /\ commands[call.names[1]] = call.before[call.names[1]]
    /\ Created(call.names[2])

\* C19: alias registration is not atomic: a server-originated call with an
\* alias array throws exactly when some alias collides; the aliases before the
\* first collision are registered with the call's handler and config and were
\* broadcast, in order; the colliding alias and those after it were neither
\* registered nor broadcast by the call.
C19_AliasesNotAtomic ==
    (call.result # "none" /\ call.isArray /\ ~call.isClientCommand) =>
        LET k == FirstCollision
            done == IF k = 0 THEN Len(call.names) ELSE k - 1 IN
        /\ call.result = (IF k = 0 THEN "true" ELSE "threw")
        /\ net = [i \in 1..done |-> [name |-> call.names[i], config |-> call.config]]
        /\ \A i \in 1..done :
            /\ call.names[i] \in DOMAIN commands
            /\ commands[call.names[i]] =
                   CommandWrapper(call.names[i], call.handler, call.config, FALSE)
        /\ DOMAIN commands = DOMAIN call.before \cup {call.names[i] : i \in 1..done}
        /\ \A n \in DOMAIN call.before : commands[n] = call.before[n]

\* C19 witness: a two-alias server call has thrown at its second alias after
\* registering the first one.
C19_Witness ==
    /\ call.result = "threw"
    /\ call.isArray
    /\ ~call.isClientCommand
    /\ FirstCollision = 2
    /\ Created(call.names[1])
    /\ commands[call.names[1]].handler = call.handler
    /\ Len(net) = 1

\* C20: the duplicate check looks at the name and at the origin of the new
\* registration only: a single-name call throws exactly when the name is
\* registered and the call is server-originated, also over an entry that a
\* client-originated registration created, and that entry stays as it was.
C20_DuplicateIgnoresExistingOrigin ==
    (call.result # "none" /\ ~call.isArray) =>
        LET n == call.names[1] IN
        /\ (call.result = "threw") <=> (n \in DOMAIN call.before /\ ~call.isClientCommand)
        /\ n \in DOMAIN call.before => commands[n] = call.before[n]

\* ------------------------------------------------- claims on discovery
\* The manifest a fresh process gets for a folder entry: manifest.ts when it
\* loads, else manifest.json; well-formed when one of the two loads.
WellFormed(e) == (e.ts.loads /\ e.ts.default) \/ e.json.loads
ManifestOf(e) == IF e.ts.loads /\ e.ts.default THEN e.ts ELSE e.json
ActivePlugin(e) == WellFormed(e) /\ ManifestOf(e).active

\* The files a plugin lists for a surface (none when it has no list for it).
ListedFiles(e, type) ==
    IF type \in DOMAIN ManifestOf(e).plugins THEN ManifestOf(e).plugins[type] ELSE <<>>

\* What a folder entry yields for a surface according to the specification.
Yields(e, type) ==
    IF type = "nui" THEN ActivePlugin(e) /\ e.ui
    ELSE ActivePlugin(e) /\ Len(ListedFiles(e, type)) > 0

\* C7: discovery never fails on a malformed plugin: a call is never rejected,
\* and the list it returns names exactly the well-formed, active plugins of the
\* folder that have something for the surface; a plugin neither of whose
\* manifests loads is the only kind left out.
C7_DiscoveryResilient ==
    /\ calls[1].pc \notin {"failed", "exited"}
    /\ calls[1].pc = "returned" =>
        {calls[1].result[k].name : k \in 1..Len(calls[1].result)}
            = {disk[i].name : i \in {j \in 1..Len(disk) : Yields(disk[j], calls[1].type)}}

\* C7 witness: a scan has returned a non-empty list for a folder whose first
\* entry has no loadable manifest and whose second entry is well-formed.
C7_Witness ==
    /\ calls[1].pc = "returned"
    /\ Len(disk) = 2
    /\ ~WellFormed(disk[1])
    /\ WellFormed(disk[2])
    /\ Len(calls[1].result) > 0
    /\ calls[1].result[1].name = disk[2].name

\* The Descriptor list the specification prescribes for server and client:
\* the folder entries in order, each active one giving one Descriptor per
\* listed file with the configured block or the empty object.
RECURSIVE Prescribed(_, _, _)
Prescribed(dsk, type, cfg) ==
    IF dsk = <<>> THEN <<>>
    ELSE LET e == Head(dsk)
             c == IF e.name \in DOMAIN cfg /\ type \in DOMAIN cfg[e.name]
                  THEN cfg[e.name][type] ELSE <<>>
             own == IF ActivePlugin(e)
                    THEN [k \in 1..Len(ListedFiles(e, type)) |->
                             [name |-> e.name, file |-> ListedFiles(e, type)[k], config |-> c]]
                    ELSE <<>>
         IN own \o Prescribed(Tail(dsk), type, cfg)

\* C8: for the server and client surfaces a scan returns exactly the
\* prescribed sequence: per active plugin in folder order one {name, file,
\* config} per listed file in listed order, config defaulting to the empty
\* object; an inactive plugin contributes nothing.
C8_DescriptorsExact ==
    (calls[1].pc = "returned" /\ calls[1].type \in {"server", "client"}) =>
        calls[1].result = Prescribed(disk, calls[1].type, configPlugins)

\* C8 witness: a server scan of a folder holding a loaded inactive plugin has
\* returned a Descriptor that carries the empty default configuration.
C8_Witness ==
    /\ calls[1].pc = "returned"
    /\ calls[1].type = "server"
    /\ \E i \in 1..Len(disk) : WellFormed(disk[i]) /\ ~ManifestOf(disk[i]).active
    /\ \E k \in 1..Len(calls[1].result) : calls[1].result[k].config = EmptyConfig

\* C9: discovery is memoized per surface: a call made after some call for the
\* same surface has returned gets the list that the first returned call got,
\* whatever happened to the plugins folder in between.
C9_Memoized ==
    \A c \in Callers :
        (calls[c].pc = "returned" /\ calls[c].late) =>
            calls[c].result = first[calls[c].type]

\* The calls that are inside getPlugins(type) for a surface: the cache missed
\* at line 325 and the scan of the folder has started (readdir, ui folders).
Scanning(type) ==
    {c \in AllCallers : calls[c].type = type /\ calls[c].pc \in {"readdir", "uidir"}}

\* C14: manifests are scanned at most once per surface under any interleaving
\* of overlapping requests: no two scans of a surface run at once, no scan of
\* a surface runs when its list is cached, and every call that returns gets
\* the list the first call got.
C14_ScannedOnce ==
    /\ \A type \in Types :
        /\ Cardinality(Scanning(type)) <= 1
        /\ type \in DOMAIN plugins => Scanning(type) = {}
    /\ \A c \in Callers :
        calls[c].pc = "returned" => calls[c].result = first[calls[c].type]

\* ------------------------------------- claims on initializer and lifecycle
Has(kind) == \E i \in 1..Len(events) : events[i].event = kind
Pos(kind) == CHOOSE i \in 1..Len(events) : events[i].event = kind
Count(kind) == Cardinality({i \in 1..Len(events) : events[i].event = kind})
IsHandler(e) == e.event = "handler"
IsEnsuring(e) == e.event = "ensuring"
HandlerEntries == SelectSeq(events, IsHandler)
EnsuringEntries == SelectSeq(events, IsEnsuring)
\* The loop of the initializer has ended, by its end or by an exception
\* (after which the process went on or was ended).
InitializerOver ==
    \/ start \in {"ready", "failed"}
    \/ start = "exited" /\ Has("initializing")
Started == Cardinality({i \in 1..Len(events) :
                           IsHandler(events[i]) /\ events[i].outcome = "returned"})

\* C3: the initializer isolates failures per plugin: when it is over, every
\* server Descriptor has been reached, whatever failed before it, so that the
\* number of started plugins is the number of Descriptors less the failed ones.
C3_FailuresIsolated ==
    InitializerOver =>
        /\ Len(EnsuringEntries) = Len(plugins["server"])
        /\ Started = Len(plugins["server"]) - (Len(EnsuringEntries) - Started)

\* C4: the lifecycle events of a start come in the order "starting",
\* "initializing", "ready", each once at most; every entry handler runs after
\* "initializing" and before "ready"; "ready" is triggered only when the
\* initializer has finished and has invoked the handler of every Descriptor.
C4_LifecycleOrder ==
    /\ \A kind \in {"starting", "initializing", "ready"} : Count(kind) <= 1
    /\ Has("initializing") => Has("starting") /\ Pos("starting") < Pos("initializing")
    /\ Has("ready") =>
        /\ Has("initializing") /\ Pos("initializing") < Pos("ready")
        /\ start = "ready"
        /\ Len(HandlerEntries) = Len(plugins["server"])
    /\ \A i \in 1..Len(events) :
        IsHandler(events[i]) =>
            /\ Has("initializing") /\ Pos("initializing") < i
            /\ Has("ready") => i < Pos("ready")

\* C4 witness: "ready" has been triggered after two entry handlers ran.
C4_Witness ==
    /\ Has("ready")
    /\ Len(HandlerEntries) >= 2

\* C5: "stopped" is terminal: once it has been triggered no lifecycle event is
\* triggered and no entry handler is invoked, so it is the last entry of the log.
C5_StoppedTerminal ==
    \A i \in 1..Len(events) : events[i].event = "stopped" => i = Len(events)

\* C6: the initializer takes the server Descriptors one at a time in the
\* order discovery returned them: the k-th handler invoked is that of the k-th
\* Descriptor and is given that Descriptor's configuration, and every command
\* an earlier handler registered is in the registry when a later one is invoked.
C6_SequentialInOrder ==
    /\ Len(HandlerEntries) > 0 =>
        /\ "server" \in DOMAIN plugins
        /\ Len(HandlerEntries) <= Len(plugins["server"])
        /\ \A k \in 1..Len(HandlerEntries) :
            /\ HandlerEntries[k].name = plugins["server"][k].name
            /\ HandlerEntries[k].file = plugins["server"][k].file
            /\ HandlerEntries[k].config = plugins["server"][k].config
    /\ \A j, k \in 1..Len(HandlerEntries) :
        j < k => HandlerEntries[j].registered \subseteq HandlerEntries[k].seen

\* C6 witness: the handler of a second plugin has been invoked with a
\* configured block, and it found the command the first plugin registered.
C6_Witness ==
    /\ Len(HandlerEntries) >= 2
    /\ HandlerEntries[1].name # HandlerEntries[2].name
    /\ HandlerEntries[1].registered # {}
    /\ HandlerEntries[1].registered \subseteq HandlerEntries[2].seen
    /\ HandlerEntries[2].config # EmptyConfig

\* The entries of the log that startup produces: lifecycle events of a start
\* and plugin steps, "stopped" left out.
IsStartup(e) == e.event # "stopped"
StartupLog == SelectSeq(events, IsStartup)

\* C13: a failure of the bootstrap statement is fatal to startup: once the
\* statement has failed, no "starting", "initializing" or "ready" is
\* triggered, no plugin is loaded and no entry handler is invoked.
C13_BootstrapFailureFatal ==
    [][(bootstrap = "failed" \/ bootstrap = "exited") =>
          (StartupLog' = StartupLog /\ serverPlugins' = serverPlugins)]_vars

\* C17: a start that has passed the banner and the version check ends in
\* Ready: when the initializer is over, "ready" has been triggered and the
\* handler is in its ready position, whether or not a plugin failed.
C17_ReadyReached ==
    InitializerOver => (start = "ready" /\ Has("ready"))

\* C18: a start or stop notification that names another resource has no
\* effect: the step that delivers it triggers no lifecycle event, starts no
\* discovery call and no initializer step, and leaves the Descriptor cache,
\* the loaded-module table, the manifest cache and the registry as they were.
C18_ForeignNotificationIgnored ==
    [][(signal' # signal /\ signal'.resourceName # GetCurrentResourceName) =>
          /\ events' = events
          /\ start' = start
          /\ calls' = calls
          /\ plugins' = plugins
          /\ requireCache' = requireCache
          /\ serverPlugins' = serverPlugins
          /\ commands' = commands
          /\ net' = net]_vars

\* C18 witness: the stop of another resource was announced while this
\* resource was initializing its plugins; nothing was stopped.
C18_Witness ==
    /\ signal = Notification("stop", "other")
    /\ start = "plugins"
    /\ Has("initializing")
    /\ ~Stopped

\* ------------------------------------------------------- claims on storage
\* C12: the handle the db factory returns is of the driver that core.db
\* names, for every supported selector, and the second factory returns the
\* driver that its configured driver names.
C12_DriverSelected ==
    /\ coreDb.value \in Selectors /\ typeOf(coreDb) = "string" =>
           handle.driver = SelectedDatabaseDriver(coreDb)
    /\ (database # NoDatabase /\ databaseDriver = "mysql") => database = "MySQL"

\* ---------------------------------------------- claims on playerConnecting
CallsOf(c, fn) == {i \in 1..Len(conns[c].log) : conns[c].log[i].call = fn}

\* The handler of connection c is over: it returned or its promise rejected.
Over(c) == conns[c].pc \in {"done", "failed", "exited"}

\* The player of connection c is to be rejected: no license, or whitelisting
\* is on and the license is not in whitelist_lists, or the license has a row
\* in ban_lists.
Rejected(c) ==
    LET license == conns[c].playerIds.license IN
    \/ license = NoLicense
    \/ isWhitelisted /\ findFirst(tables.whitelist_lists, license) = <<>>
    \/ findFirst(tables.ban_lists, license) # <<>>

\* A call of deferrals.done carries a rejection reason.
WithReason(called) == called.args # <<>> /\ called.args[1] # NoReason

\* C21: the handshake of every connection is well-formed: defer is the first
\* call and is made once; done is never called twice, and is called once when
\* the handler is over, as its last call, so that no update and no storage
\* write or update follows it; done carries a reason exactly when the player
\* has no license, fails the whitelist check or is banned.
C21_HandshakeWellFormed ==
    \A c \in Connections :
        LET log == conns[c].log IN
        /\ conns[c].pc # "idle" =>
            /\ log[1] = Called("deferrals.defer", <<>>)
            /\ Cardinality(CallsOf(c, "deferrals.defer")) = 1
        /\ Cardinality(CallsOf(c, "deferrals.done")) = (IF Over(c) THEN 1 ELSE 0)
        /\ Over(c) =>
            /\ log[Len(log)].call = "deferrals.done"
            /\ WithReason(log[Len(log)]) = Rejected(c)

====
